---- MODULE Spec2Model ----
(***************************************************************************)
(* State-machine model of SpikeSlabRBMPolicy                                *)
(* (src/mlpack/methods/rbm/spike_slab_rbm_policy_impl.hpp).                 *)
(*                                                                         *)
(* Numbers are exact rationals <<n, d>> (d > 0, lowest terms).  A value    *)
(* that carries a logistic factor is kept as c * Logistic(a), the record   *)
(* [c |-> rational, a |-> rational], with a = NoArg when there is no       *)
(* factor.  Matrices and cubes are flat sequences in column-major order,   *)
(* as Armadillo stores them; offset o of a buffer is element o + 1.        *)
(***************************************************************************)
EXTENDS Integers, Sequences, FiniteSets, TLC

\* ------------------------------------------------------------------ bounds
MaxDim == 2
MaxUpdates == 1

\* Values the model draws inputs from.
DimVals == 1..MaxDim
\* <<visibleSize, hiddenSize, poolSize>> of the instances the operations run on.
Shapes == {<<1, 1, 1>>, <<2, 1, 2>>, <<1, 2, 1>>, <<2, 2, 2>>}
\* <<seed of the initial parameters, visible penalty, slab penalty, radius,
\*   junk in the scratch buffers>> of the instances.
Setups == {<<0, 1, "ones", 2, 0>>, <<1, 2, "twos", 0, 7>>,
           <<0, -1, "negtail", 2, 7>>}
VisibleInputKinds == {"zeros", "ones", "ramp", "long"}
HiddenInputKinds == {"on", "mixed", "short"}
SlabPenaltyKinds == {"ones", "twos", "negtail"}
RadiusVals == {0, 2}
NoiseVals == {-1, 1}
UpdateVals == {-1, 2}
JunkVals == {0, 7}

\* --------------------------------------------------------- exact rationals
Abs(x) == IF x < 0 THEN -x ELSE x

RECURSIVE GCD(_, _)
GCD(a, b) == IF b = 0 THEN a ELSE GCD(b, a % b)

Rat(n, d) ==
  LET g == GCD(Abs(n), Abs(d))
      s == IF d < 0 THEN -1 ELSE 1
  IN  <<(s * n) \div g, (s * d) \div g>>

Int2Rat(n) == <<n, 1>>
Zero == <<0, 1>>
One == <<1, 1>>
Half == <<1, 2>>

RAdd(x, y) == Rat(x[1] * y[2] + y[1] * x[2], x[2] * y[2])
RSub(x, y) == Rat(x[1] * y[2] - y[1] * x[2], x[2] * y[2])
RMul(x, y) == Rat(x[1] * y[1], x[2] * y[2])
RDiv(x, y) == Rat(x[1] * y[2], x[2] * y[1])
RNeg(x) == <<-x[1], x[2]>>
RLess(x, y) == x[1] * y[2] < y[1] * x[2]
RPositive(x) == x[1] > 0

RECURSIVE RSumTo(_, _)
\* f[1] + ... + f[n], accumulated left to right from 0 as the loops do.
RSumTo(f, n) == IF n = 0 THEN Zero ELSE RAdd(RSumTo(f, n - 1), f[n])

RSum(f) == RSumTo(f, Len(f))

\* ------------------------------------------- values with a logistic factor
NoArg == <<0, 0>>
Plain(q) == [c |-> q, a |-> NoArg]
IsPlain(v) == v.a = NoArg

\* LogisticFunction::Fn(x) = 1 / (1 + exp(-x)); Fn(0) = 1/2 is rational, any
\* other rational argument gives a transcendental value, kept symbolically.
Logistic(x) == IF x = Zero THEN Plain(Half) ELSE [c |-> One, a |-> x]

\* q * v for a rational q.
Scale(q, v) ==
  IF RMul(q, v.c) = Zero THEN Plain(Zero) ELSE [c |-> RMul(q, v.c), a |-> v.a]

\* --------------------------------------------------------------- buffers
Filled(n, x) == [k \in 1..n |-> x]

\* arma::Mat::set_size: a buffer that already has the requested number of
\* elements keeps its memory and contents; otherwise the memory is fresh and
\* uninitialised, here filled with the junk value.
SetSize(buf, n, junk) == IF Len(buf) = n THEN buf ELSE Filled(n, junk)

\* A view: which memory it refers to ("none" for an empty object, "param"
\* for the parameter buffer, "own" for memory of its own), the offset of
\* its first element, its shape and, for "own", its contents.
EmptyView == [mem |-> "none", off |-> 0, shape |-> <<0, 0, 0>>, own |-> <<>>]
NElem(view) == view.shape[1] * view.shape[2] * view.shape[3]

VARIABLES
  self,      \* the SpikeSlabRBMPolicy instance
  archive,   \* the serialised model, <<>> when nothing was saved
  saved,     \* the instance as it was when it was saved
  phase,     \* "built", "live", "loaded", "stale" or "restored"
  status,    \* "ok" or "failed" (an assertion aborted the call)
  pc,        \* "idle", "SampleVisible" while its trial loop runs, or
             \* "returned" while the caller holds the results of a call
  call,      \* the last call: its inputs, its buffers before and after
  updates    \* number of in-place parameter updates so far

vars == <<self, archive, saved, phase, status, pc, call, updates>>

\* ------------------------------------------------------------ constructor
ParameterLength(V, H, P) == V * H * P + V + H

\* The values the trainer's initialisation puts into the parameter buffer.
InitialParameter(V, H, P, seed, vp) ==
  [k \in 1..ParameterLength(V, H, P) |->
     IF k <= V * P * H THEN Int2Rat(((k - 1 + seed) % 3) - 1)
     ELSE IF k <= V * P * H + H THEN Int2Rat((k + seed) % 2)
     ELSE IF vp > 0 \/ k > V * P * H + H + 1 THEN Int2Rat(vp)
     ELSE One]

\* The slab penalty matrix the caller passes, P x H.
SlabPenaltyOf(kind, P, H) ==
  [o \in 1..(P * H) |->
     IF kind = "ones" THEN One
     ELSE IF kind = "twos" THEN Int2Rat(2)
     ELSE IF o = 1 THEN One ELSE Int2Rat(-1)]

Construct(V, H, P, slabPenalty, radius, j) ==
  [visibleSize |-> V, hiddenSize |-> H, poolSize |-> P,
   slabPenalty |-> slabPenalty, radius |-> radius,
   parameter |-> Filled(ParameterLength(V, H, P), Int2Rat(j)),
   weight |-> EmptyView, spikeBias |-> EmptyView, visiblePenalty |-> EmptyView,
   spikeMean |-> Filled(H, Plain(Int2Rat(j))),
   spikeSamples |-> Filled(H, Int2Rat(j)),
   slabMean |-> Filled(P * H, Int2Rat(j))]

\* ------------------------------------------------------------------ Reset
\* Reset with the visible-penalty view placed right after the weights.
Reset_Overlap(s) ==
  LET w  == [mem |-> "param", off |-> 0,
             shape |-> <<s.visibleSize, s.poolSize, s.hiddenSize>>,
             own |-> <<>>]
      sb == [mem |-> "param", off |-> NElem(w),
             shape |-> <<s.hiddenSize, 1, 1>>, own |-> <<>>]
      vp == [mem |-> "param", off |-> NElem(w),
             shape |-> <<s.visibleSize, 1, 1>>, own |-> <<>>]
  IN  [s EXCEPT !.weight = w, !.spikeBias = sb, !.visiblePenalty = vp]

Reset(s) ==
  LET w  == [mem |-> "param", off |-> 0,
             shape |-> <<s.visibleSize, s.poolSize, s.hiddenSize>>,
             own |-> <<>>]
      sb == [mem |-> "param", off |-> NElem(w),
             shape |-> <<s.hiddenSize, 1, 1>>, own |-> <<>>]
      vp == [mem |-> "param", off |-> NElem(w) + NElem(sb),
             shape |-> <<s.visibleSize, 1, 1>>, own |-> <<>>]
  IN  [s EXCEPT !.weight = w, !.spikeBias = sb, !.visiblePenalty = vp]

\* Element at offset k (from 0) of a view of the instance.
ViewAt(s, view, k) ==
  IF view.mem = "param" THEN s.parameter[view.off + k + 1] ELSE view.own[k + 1]

ViewValues(s, view) == [k \in 1..NElem(view) |-> ViewAt(s, view, k - 1)]

\* weight(r, c, i), spikeBias(i), visiblePenalty(r), slabPenalty(k, i); all
\* indices from 0.
Weight(s, r, c, i) ==
  ViewAt(s, s.weight, r + s.visibleSize * c + s.visibleSize * s.poolSize * i)
SpikeBias(s, i) == ViewAt(s, s.spikeBias, i)
VisiblePenalty(s, r) == ViewAt(s, s.visiblePenalty, r)
SlabPenalty(s, k, i) == s.slabPenalty[k + s.poolSize * i + 1]

\* input.t() * weight.slice(i).col(k)
Project(s, input, i, k) ==
  RSum([r \in 1..s.visibleSize |-> RMul(input[r], Weight(s, r - 1, k, i))])

\* FreeEnergy keeping its per-unit sums in the slab-mean scratch buffer.
FreeEnergy_UsingScratch(s, input) ==
  IF Len(input) # s.visibleSize
  THEN [ok |-> FALSE, self |-> s, input |-> input, ret |-> <<>>]
  ELSE
    LET quad == RMul(Half, RSum([r \in 1..s.visibleSize |->
                  RMul(RMul(input[r], VisiblePenalty(s, r - 1)), input[r])]))
        logs == [o \in 1..(s.hiddenSize * s.poolSize) |->
                  RDiv(Int2Rat(2), SlabPenalty(s, (o - 1) % s.poolSize,
                                               (o - 1) \div s.poolSize))]
        sums == [o \in 1..(s.hiddenSize * s.poolSize) |->
                  RDiv(RMul(Project(s, input, (o - 1) \div s.poolSize,
                                    (o - 1) % s.poolSize),
                            Project(s, input, (o - 1) \div s.poolSize,
                                    (o - 1) % s.poolSize)),
                       RMul(Int2Rat(2),
                            SlabPenalty(s, (o - 1) % s.poolSize,
                                        (o - 1) \div s.poolSize)))]
        soft == [i \in 1..s.hiddenSize |->
                  RAdd(SpikeBias(s, i - 1),
                       RSum([k \in 1..s.poolSize |->
                               sums[k + s.poolSize * (i - 1)]]))]
    IN  [ok |-> TRUE, self |-> [s EXCEPT !.slabMean = sums],
         input |-> input, ret |-> <<quad, logs, soft>>]

\* -------------------------------------------------------------- FreeEnergy
\* The result is quad - SUM 0.5 * log(pi * logs[..]) - SUM softplus(soft[..]).
FreeEnergy(s, input) ==
  IF Len(input) # s.visibleSize
  THEN [ok |-> FALSE, self |-> s, input |-> input, ret |-> <<>>]
  ELSE
    LET quad == RMul(Half, RSum([r \in 1..s.visibleSize |->
                  RMul(RMul(input[r], VisiblePenalty(s, r - 1)), input[r])]))
        logs == [o \in 1..(s.hiddenSize * s.poolSize) |->
                  RDiv(Int2Rat(2), SlabPenalty(s, (o - 1) % s.poolSize,
                                               (o - 1) \div s.poolSize))]
        soft == [i \in 1..s.hiddenSize |->
                  RAdd(SpikeBias(s, i - 1),
                       RSum([k \in 1..s.poolSize |->
                         RDiv(RMul(Project(s, input, i - 1, k - 1),
                                   Project(s, input, i - 1, k - 1)),
                              RMul(Int2Rat(2), SlabPenalty(s, k - 1, i - 1)))]))]
    IN  [ok |-> TRUE, self |-> s, input |-> input,
         ret |-> <<quad, logs, soft>>]

\* --------------------------------------------------------------- SpikeMean
\* v' W_i diag(slabPenalty.col(i))^-1 W_i' v = SUM_k (v' W_i[:,k])^2 / penalty(k,i)
SpikeMean(s, visible, target) ==
  IF Len(visible) # s.visibleSize \/ Len(target) # s.hiddenSize
  THEN [ok |-> FALSE, out |-> target]
  ELSE [ok |-> TRUE,
        out |-> [i \in 1..s.hiddenSize |->
          Logistic(RAdd(
            RMul(Half, RSum([k \in 1..s.poolSize |->
              RDiv(RMul(Project(s, visible, i - 1, k - 1),
                        Project(s, visible, i - 1, k - 1)),
                   SlabPenalty(s, k - 1, i - 1))])),
            SpikeBias(s, i - 1)))]]

\* math::RandBernoulli(p) returns 1 when a uniform draw from [0, 1) is below p:
\* never for p <= 0, always for p >= 1, and u (either outcome) in between.
RandBernoulli(p, u) ==
  IF IsPlain(p) /\ ~RPositive(p.c) THEN Zero
  ELSE IF IsPlain(p) /\ ~RLess(p.c, One) THEN One
  ELSE Int2Rat(u)

\* ------------------------------------------------------------- SampleSpike
SampleSpike(s, spikeMean, spike, bern) ==
  IF Len(spikeMean) # s.hiddenSize \/ Len(spike) # s.hiddenSize
  THEN [ok |-> FALSE, out |-> spike]
  ELSE [ok |-> TRUE,
        out |-> [i \in 1..s.hiddenSize |-> RandBernoulli(spikeMean[i], bern[i])]]

\* SlabMean without the spike factor.
SlabMean_Ungated(s, visible, spike, target) ==
  IF \/ Len(visible) # s.visibleSize
     \/ Len(spike) # s.hiddenSize
     \/ Len(target) # s.poolSize * s.hiddenSize
  THEN [ok |-> FALSE, out |-> target]
  ELSE [ok |-> TRUE,
        out |-> [o \in 1..(s.poolSize * s.hiddenSize) |->
          LET k == (o - 1) % s.poolSize
              i == (o - 1) \div s.poolSize
          IN  RMul(RDiv(One, SlabPenalty(s, k, i)),
                   Project(s, visible, i, k))]]

\* SlabMean adding to what its output buffer holds instead of assigning.
SlabMean_Accumulating(s, visible, spike, target) ==
  IF \/ Len(visible) # s.visibleSize
     \/ Len(spike) # s.hiddenSize
     \/ Len(target) # s.poolSize * s.hiddenSize
     \/ s.weight.shape[1] # s.visibleSize
     \/ s.weight.shape[2] # s.poolSize
     \/ Len(s.slabPenalty) # s.poolSize * s.hiddenSize
  THEN [ok |-> FALSE, out |-> target]
  ELSE [ok |-> TRUE,
        out |-> [o \in 1..(s.poolSize * s.hiddenSize) |->
          LET k == (o - 1) % s.poolSize
              i == (o - 1) \div s.poolSize
          IN  RAdd(target[o],
                   RMul(RMul(spike[i + 1], RDiv(One, SlabPenalty(s, k, i))),
                        Project(s, visible, i, k)))]]

\* ---------------------------------------------------------------- SlabMean
SlabMean(s, visible, spike, target) ==
  IF \/ Len(visible) # s.visibleSize
     \/ Len(spike) # s.hiddenSize
     \/ Len(target) # s.poolSize * s.hiddenSize
     \/ s.weight.shape[1] # s.visibleSize
     \/ s.weight.shape[2] # s.poolSize
     \/ Len(s.slabPenalty) # s.poolSize * s.hiddenSize
  THEN [ok |-> FALSE, out |-> target]
  ELSE [ok |-> TRUE,
        out |-> [o \in 1..(s.poolSize * s.hiddenSize) |->
          LET k == (o - 1) % s.poolSize
              i == (o - 1) \div s.poolSize
          IN  RMul(RMul(spike[i + 1], RDiv(One, SlabPenalty(s, k, i))),
                   Project(s, visible, i, k))]]

\* math::RandNormal(mean, variance): the mean plus a noise term z.
RandNormal(mean, variance, z) == RAdd(mean, Int2Rat(z))

\* -------------------------------------------------------------- SampleSlab
\* Offset (from 1) of the first cell, in loop order, whose penalty fails the
\* assertion inside the loop; 0 when every cell passes.
FirstBadSlabPenalty(s) ==
  LET bad == {o \in 1..(s.poolSize * s.hiddenSize) : ~RPositive(s.slabPenalty[o])}
  IN  IF bad = {} THEN 0 ELSE CHOOSE o \in bad : \A b \in bad : o <= b

SampleSlab(s, slabMean, slab, noise) ==
  IF \/ Len(slabMean) # s.poolSize * s.hiddenSize
     \/ Len(slab) # s.poolSize * s.hiddenSize
     \/ Len(s.slabPenalty) # s.poolSize * s.hiddenSize
  THEN [ok |-> FALSE, out |-> slab]
  ELSE
    LET bad == FirstBadSlabPenalty(s)
    IN  [ok |-> bad = 0,
         out |-> [o \in 1..(s.poolSize * s.hiddenSize) |->
           IF bad = 0 \/ o < bad
           THEN RandNormal(slabMean[o], RDiv(One, s.slabPenalty[o]), noise[o])
           ELSE slab[o]]]

\* ------------------------------------------------------------- VisibleMean
RECURSIVE VisibleAccumulate(_, _, _, _, _)
\* output += weight.slice(i) * slab.col(i) * spike(i) for i = 0 .. n - 1.
VisibleAccumulate(s, spike, slab, output, n) ==
  IF n = 0 THEN output
  ELSE
    LET before == VisibleAccumulate(s, spike, slab, output, n - 1)
    IN  [r \in 1..Len(output) |->
          RAdd(before[r],
               RMul(RSum([c \in 1..s.poolSize |->
                            RMul(Weight(s, r - 1, c - 1, n - 1),
                                 slab[c + s.poolSize * (n - 1)])]),
                    spike[n]))]

VisibleMean(s, input, output, j) ==
  IF Len(input) # s.hiddenSize + s.poolSize * s.hiddenSize
  THEN [ok |-> FALSE, out |-> output]
  ELSE
    LET sized == SetSize(output, s.visibleSize, Int2Rat(j))
        spike == SubSeq(input, 1, s.hiddenSize)
        slab  == SubSeq(input, s.hiddenSize + 1, Len(input))
        acc   == VisibleAccumulate(s, spike, slab, sized, s.hiddenSize)
    IN  [ok |-> TRUE,
         out |-> [r \in 1..s.visibleSize |->
                   RDiv(acc[r], VisiblePenalty(s, r - 1))]]

\* -------------------------------------------------------------- HiddenMean
PlainSeq(q) == [k \in 1..Len(q) |-> Plain(q[k])]
CoefSeq(v) == [k \in 1..Len(v) |-> v[k].c]

HiddenMean(s, input, output, bern, j) ==
  IF Len(input) # s.visibleSize
  THEN [ok |-> FALSE, self |-> s, out |-> output,
        spike |-> <<>>, slabMean |-> <<>>]
  ELSE
    LET n      == s.hiddenSize + s.poolSize * s.hiddenSize
        sized  == SetSize(output, n, Plain(Int2Rat(j)))
        spike  == SpikeMean(s, input, SubSeq(sized, 1, s.hiddenSize))
        sample == SampleSpike(s, spike.out, s.spikeSamples, bern)
        s1     == [s EXCEPT !.spikeSamples = sample.out]
        slab   == SlabMean(s1, input, s1.spikeSamples,
                           CoefSeq(SubSeq(sized, s.hiddenSize + 1, n)))
    IN  [ok |-> spike.ok /\ sample.ok /\ slab.ok, self |-> s1,
         out |-> spike.out \o PlainSeq(slab.out),
         spike |-> s1.spikeSamples, slabMean |-> slab.out]

\* ------------------------------------------------------------ SampleHidden
SampleHidden(s, input, output, bern, noise, j) ==
  IF Len(input) # s.visibleSize
  THEN [ok |-> FALSE, self |-> s, out |-> output,
        spike |-> <<>>, slabMean |-> <<>>]
  ELSE
    LET n      == s.hiddenSize + s.poolSize * s.hiddenSize
        sized  == SetSize(output, n, Plain(Int2Rat(j)))
        mean   == SpikeMean(s, input, SubSeq(sized, 1, s.hiddenSize))
        spike  == SampleSpike(s, mean.out, mean.out, bern)
        slab   == SlabMean(s, input, spike.out,
                           CoefSeq(SubSeq(sized, s.hiddenSize + 1, n)))
        drawn  == SampleSlab(s, slab.out, slab.out, noise)
    IN  [ok |-> mean.ok /\ spike.ok /\ slab.ok /\ drawn.ok, self |-> s,
         out |-> PlainSeq(spike.out) \o PlainSeq(drawn.out),
         spike |-> spike.out, slabMean |-> slab.out]

\* ---------------------------------------------------------- gradient phases
GradView(off, shape) == [mem |-> "gradient", off |-> off, shape |-> shape, own |-> <<>>]

\* Store vals through a view into the buffer it refers to.
WriteView(buf, view, vals) ==
  [k \in 1..Len(buf) |->
     IF view.off < k /\ k <= view.off + NElem(view) THEN vals[k - view.off]
     ELSE buf[k]]

PositiveGradViews(s) ==
  LET weightGrad == GradView(0, <<s.visibleSize, s.poolSize, s.hiddenSize>>)
      spikeBiasGrad == GradView(NElem(weightGrad), <<s.hiddenSize, 1, 1>>)
      visiblePenaltyGrad == GradView(NElem(weightGrad) + NElem(spikeBiasGrad),
                                     <<s.visibleSize, 1, 1>>)
  IN  [weightGrad |-> weightGrad, spikeBiasGrad |-> spikeBiasGrad,
       visiblePenaltyGrad |-> visiblePenaltyGrad]

NegativeGradViews(s) ==
  LET weightGrad == GradView(0, <<s.visibleSize, s.poolSize, s.hiddenSize>>)
      spikeBiasGrad == GradView(NElem(weightGrad), <<s.hiddenSize, 1, 1>>)
      visiblePenaltyGrad == GradView(NElem(weightGrad) + NElem(spikeBiasGrad),
                                     <<s.visibleSize, 1, 1>>)
  IN  [weightGrad |-> weightGrad, spikeBiasGrad |-> spikeBiasGrad,
       visiblePenaltyGrad |-> visiblePenaltyGrad]

\* A member call on the instance's own scratch buffers.  t is the instance
\* with the outcome of the calls so far: a failed assertion ends the
\* sequence where it is raised, and a call that fails leaves its output
\* as it was.
Stored(t, field, r) == [ok |-> r.ok, self |-> [t.self EXCEPT ![field] = r.out]]

\* SpikeMean(input, spikeMean)
SpikeMeanToScratch(t, input) ==
  IF ~t.ok THEN t
  ELSE Stored(t, "spikeMean", SpikeMean(t.self, input, t.self.spikeMean))

\* SampleSpike(spikeMean, spikeSamples)
SampleSpikeToScratch(t, bern) ==
  IF ~t.ok THEN t
  ELSE Stored(t, "spikeSamples",
              SampleSpike(t.self, t.self.spikeMean, t.self.spikeSamples, bern))

\* SlabMean(input, spikeSamples, slabMean)
SlabMeanToScratch(t, input) ==
  IF ~t.ok THEN t
  ELSE Stored(t, "slabMean",
              SlabMean(t.self, input, t.self.spikeSamples, t.self.slabMean))

\* The three calls a phase starts with: SpikeMean into the spike-mean scratch
\* buffer, SampleSpike into the spike-sample scratch buffer, SlabMean into
\* the slab-mean scratch buffer.
PositiveScratch(s, input, bern) ==
  SlabMeanToScratch(
    SampleSpikeToScratch(
      SpikeMeanToScratch([ok |-> TRUE, self |-> s], input),
      bern),
    input)

NegativeScratch(s, negativeSamples, bern) ==
  SlabMeanToScratch(
    SampleSpikeToScratch(
      SpikeMeanToScratch([ok |-> TRUE, self |-> s], negativeSamples),
      bern),
    negativeSamples)

\* Row, column and slice (from 0) of the cell at offset o (from 1) of a cube
\* of the weight's shape.
GradRow(s, o) == (o - 1) % s.visibleSize
GradColumn(s, o) == ((o - 1) \div s.visibleSize) % s.poolSize
GradSlice(s, o) == (o - 1) \div (s.visibleSize * s.poolSize)

\* The gradient a phase writes once its scratch buffers are filled (sc):
\* weightGrad.slice(i) = input * slabMean.col(i).t() * spikeMean(i),
\* spikeBiasGrad(i) = spikeMean(i), visiblePenaltyGrad = -0.5 * input % input.
PositiveGradient(gv, sc, input, grad) ==
  IF ~sc.ok
  THEN [ok |-> FALSE, self |-> sc.self, out |-> grad, gviews |-> gv]
  ELSE [ok |-> TRUE, self |-> sc.self, gviews |-> gv,
        out |-> WriteView(WriteView(WriteView(grad,
                  gv.weightGrad,
                  [o \in 1..NElem(gv.weightGrad) |->
                    Scale(RMul(input[GradRow(sc.self, o) + 1],
                               sc.self.slabMean[GradColumn(sc.self, o)
                                 + sc.self.poolSize * GradSlice(sc.self, o) + 1]),
                          sc.self.spikeMean[GradSlice(sc.self, o) + 1])]),
                  gv.spikeBiasGrad,
                  [i \in 1..sc.self.hiddenSize |-> sc.self.spikeMean[i]]),
                  gv.visiblePenaltyGrad,
                  [r \in 1..sc.self.visibleSize |->
                    Plain(RMul(RMul(RNeg(Half), input[r]), input[r]))])]

PositivePhase(s, input, grad, bern) ==
  PositiveGradient(PositiveGradViews(s), PositiveScratch(s, input, bern),
                   input, grad)

\* NegativePhase with the weight gradient scaled by the sampled spike.
NegativeGradient_BySample(gv, sc, negativeSamples, grad) ==
  IF ~sc.ok
  THEN [ok |-> FALSE, self |-> sc.self, out |-> grad, gviews |-> gv]
  ELSE [ok |-> TRUE, self |-> sc.self, gviews |-> gv,
        out |-> WriteView(WriteView(WriteView(grad,
                  gv.weightGrad,
                  [o \in 1..NElem(gv.weightGrad) |->
                    Plain(RMul(RMul(negativeSamples[GradRow(sc.self, o) + 1],
                               sc.self.slabMean[GradColumn(sc.self, o)
                                 + sc.self.poolSize * GradSlice(sc.self, o) + 1]),
                               sc.self.spikeSamples[GradSlice(sc.self, o) + 1]))]),
                  gv.spikeBiasGrad,
                  [i \in 1..sc.self.hiddenSize |-> sc.self.spikeMean[i]]),
                  gv.visiblePenaltyGrad,
                  [r \in 1..sc.self.visibleSize |->
                    Plain(RMul(RMul(RNeg(Half), negativeSamples[r]), negativeSamples[r]))])]

NegativePhase_BySample(s, negativeSamples, grad, bern) ==
  NegativeGradient_BySample(NegativeGradViews(s),
                            NegativeScratch(s, negativeSamples, bern),
                            negativeSamples, grad)

NegativeGradient(gv, sc, negativeSamples, grad) ==
  IF ~sc.ok
  THEN [ok |-> FALSE, self |-> sc.self, out |-> grad, gviews |-> gv]
  ELSE [ok |-> TRUE, self |-> sc.self, gviews |-> gv,
        out |-> WriteView(WriteView(WriteView(grad,
                  gv.weightGrad,
                  [o \in 1..NElem(gv.weightGrad) |->
                    Scale(RMul(negativeSamples[GradRow(sc.self, o) + 1],
                               sc.self.slabMean[GradColumn(sc.self, o)
                                 + sc.self.poolSize * GradSlice(sc.self, o) + 1]),
                          sc.self.spikeMean[GradSlice(sc.self, o) + 1])]),
                  gv.spikeBiasGrad,
                  [i \in 1..sc.self.hiddenSize |-> sc.self.spikeMean[i]]),
                  gv.visiblePenaltyGrad,
                  [r \in 1..sc.self.visibleSize |->
                    Plain(RMul(RMul(RNeg(Half), negativeSamples[r]), negativeSamples[r]))])]

NegativePhase(s, negativeSamples, grad, bern) ==
  NegativeGradient(NegativeGradViews(s),
                   NegativeScratch(s, negativeSamples, bern),
                   negativeSamples, grad)

\* ----------------------------------------------------------- SampleVisible
numMaxTrials == 10

\* arma::norm(output) < radius, compared on the squares.
NormBelow(output, radius) ==
  /\ radius > 0
  /\ RLess(RSum([r \in 1..Len(output) |-> RMul(output[r], output[r])]),
           Int2Rat(radius * radius))

\* Offset (from 1) of the first visible unit whose penalty fails the
\* assertion inside the loop; 0 when every unit passes.
FirstBadVisiblePenalty(s) ==
  LET bad == {r \in 1..s.visibleSize : ~RPositive(VisiblePenalty(s, r - 1))}
  IN  IF bad = {} THEN 0 ELSE CHOOSE r \in bad : \A b \in bad : r <= b

\* One pass of the trial loop: a draw for every visible unit, then the test
\* of the norm.  means are the first arguments handed to RandNormal.
SampleVisibleTrial(s, output, noise) ==
  LET bad == FirstBadVisiblePenalty(s)
      out == [r \in 1..s.visibleSize |->
               IF bad = 0 \/ r < bad
               THEN RandNormal(output[r],
                               RDiv(One, VisiblePenalty(s, r - 1)), noise[r])
               ELSE output[r]]
  IN  [ok |-> bad = 0, out |-> out, means |-> output,
       accepted |-> bad = 0 /\ NormBelow(out, s.radius)]

\* The loop without its break.
AnotherTrial_NoBreak(k, accepted) == k < numMaxTrials

\* Whether the loop goes on to another trial after k trials.
AnotherTrial(k, accepted) == ~accepted /\ k < numMaxTrials

\* --------------------------------------------------------------- Serialize
\* Saving: the fields in the order they are written.
Save(s) ==
  << [name |-> "visibleSize", value |-> s.visibleSize],
     [name |-> "hiddenSize", value |-> s.hiddenSize],
     [name |-> "poolSize", value |-> s.poolSize],
     [name |-> "parameter", value |-> s.parameter],
     [name |-> "weight",
      value |-> <<s.weight.shape, ViewValues(s, s.weight)>>],
     [name |-> "spikeBias",
      value |-> <<s.spikeBias.shape, ViewValues(s, s.spikeBias)>>],
     [name |-> "slabPenalty", value |-> s.slabPenalty],
     [name |-> "radius", value |-> s.radius],
     [name |-> "visiblePenalty",
      value |-> <<s.visiblePenalty.shape, ViewValues(s, s.visiblePenalty)>>] >>

\* A matrix or cube read from an archive owns its memory.
Owned(v) == [mem |-> "own", off |-> 0, shape |-> v[1], own |-> v[2]]

\* Loading with hiddenSize and poolSize read in the wrong order.
Load_Swapped(ar, j) ==
  LET V == ar[1].value
      H == ar[3].value
      P == ar[2].value
  IN  [visibleSize |-> V, hiddenSize |-> H, poolSize |-> P,
       parameter |-> ar[4].value,
       weight |-> Owned(ar[5].value),
       spikeBias |-> Owned(ar[6].value),
       slabPenalty |-> ar[7].value,
       radius |-> ar[8].value,
       visiblePenalty |-> Owned(ar[9].value),
       spikeMean |-> SetSize(<<>>, H, Plain(Int2Rat(j))),
       spikeSamples |-> SetSize(<<>>, H, Int2Rat(j)),
       slabMean |-> SetSize(<<>>, P * H, Int2Rat(j))]

\* Loading into a fresh instance: the fields are read in the same order,
\* then the scratch buffers are sized.
Load(ar, j) ==
  LET V == ar[1].value
      H == ar[2].value
      P == ar[3].value
  IN  [visibleSize |-> V, hiddenSize |-> H, poolSize |-> P,
       parameter |-> ar[4].value,
       weight |-> Owned(ar[5].value),
       spikeBias |-> Owned(ar[6].value),
       slabPenalty |-> ar[7].value,
       radius |-> ar[8].value,
       visiblePenalty |-> Owned(ar[9].value),
       spikeMean |-> SetSize(<<>>, H, Plain(Int2Rat(j))),
       spikeSamples |-> SetSize(<<>>, H, Int2Rat(j)),
       slabMean |-> SetSize(<<>>, P * H, Int2Rat(j))]

\* ------------------------------------------------------------ the caller
\* Visible vectors the caller passes; "long" has one row too many.
VisibleInput(kind, V) ==
  IF kind = "zeros" THEN Filled(V, Zero)
  ELSE IF kind = "ones" THEN Filled(V, One)
  ELSE IF kind = "ramp" THEN [r \in 1..V |-> Int2Rat(IF r = 1 THEN -1 ELSE 2)]
  ELSE Filled(V + 1, One)

\* Hidden vectors [spike; slab] the caller passes; "short" lacks an element.
HiddenInput(kind, H, P) ==
  IF kind = "on" THEN Filled(H + P * H, One)
  ELSE IF kind = "mixed"
  THEN [k \in 1..(H + P * H) |->
         IF k <= H THEN Int2Rat(k % 2) ELSE Int2Rat(k - H)]
  ELSE Filled(H + P * H - 1, One)

\* Output buffers the caller passes to an operation that sizes its output
\* to n elements: an empty one, or one of that size used before, which
\* holds x everywhere.
OutputBuffers(n, x) == {<<>>, Filled(n, x)}

\* What fresh memory can show when buf is sized to n elements.
JunkFor(buf, n) == IF Len(buf) = n THEN {0} ELSE JunkVals

\* Outcomes of the uniform draws behind H Bernoulli draws.
BernoulliDraws(H) == [1..H -> {0, 1}]

\* Noise terms of n normal draws; the draws of one set share their term.
NoiseDraws(n) == {Filled(n, z) : z \in NoiseVals}

\* A buffer the caller sized itself for a direct call.
TempBuffer(n) == Filled(n, Int2Rat(7))

NoCall ==
  [op |-> "none", ok |-> TRUE, visible |-> <<>>, hidden |-> <<>>,
   bern |-> <<>>, spike |-> <<>>, slabMean |-> <<>>, gviews |-> <<>>,
   ret |-> <<>>, pre |-> <<>>, out |-> <<>>,
   mean0 |-> <<>>, means |-> <<>>, trials |-> 0, accepted |-> FALSE]

\* What a call can write to, as it is before the call.
Before(buf) == [self |-> self, out |-> buf]

Outcome(ok) == IF ok THEN "ok" ELSE "failed"

Fresh(V, H, P, setup) ==
  [Construct(V, H, P, SlabPenaltyOf(setup[3], P, H), setup[4], setup[5])
     EXCEPT !.parameter = InitialParameter(V, H, P, setup[1], setup[2])]

Begin(s) ==
  /\ self = s
  /\ archive = <<>>
  /\ saved = <<>>
  /\ phase = "built"
  /\ status = "ok"
  /\ pc = "idle"
  /\ call = NoCall
  /\ updates = 0

Init ==
  \E shape \in Shapes, setup \in Setups :
    Begin(Fresh(shape[1], shape[2], shape[3], setup))

Idle == status = "ok" /\ pc = "idle"
Ready == Idle /\ phase # "built"

DoReset ==
  /\ Idle
  /\ self' = Reset(self)
  /\ phase' = IF phase \in {"loaded", "restored"} THEN "restored" ELSE "live"
  /\ UNCHANGED <<archive, saved, status, pc, call, updates>>

\* Offsets (from 1) the optimizer's in-place update touches: the first
\* element of each of the three ranges of the parameter buffer.
UpdatedOffsets(s) ==
  {1, s.visibleSize * s.poolSize * s.hiddenSize + 1,
   s.visibleSize * s.poolSize * s.hiddenSize + s.hiddenSize + 1}

\* The optimizer changes an element of the parameter buffer in place.
DoUpdate ==
  /\ Ready
  /\ updates < MaxUpdates
  /\ \E k \in UpdatedOffsets(self), v \in UpdateVals :
       self' = [self EXCEPT !.parameter[k] = Int2Rat(v)]
  /\ phase' = IF phase \in {"loaded", "stale"} THEN "stale" ELSE "live"
  /\ updates' = updates + 1
  /\ UNCHANGED <<archive, saved, status, pc, call>>

DoSave ==
  /\ Ready
  /\ archive' = Save(self)
  /\ saved' = self
  /\ UNCHANGED <<self, phase, status, pc, call, updates>>

DoLoad ==
  /\ Idle
  /\ archive # <<>>
  /\ \E j \in JunkVals : self' = Load(archive, j)
  /\ phase' = "loaded"
  /\ UNCHANGED <<archive, saved, status, pc, call, updates>>

CallFreeEnergy ==
  /\ Ready
  /\ \E kind \in VisibleInputKinds :
       LET input == VisibleInput(kind, self.visibleSize)
       IN  \E r \in {FreeEnergy(self, input)} :
             /\ self' = r.self
             /\ status' = Outcome(r.ok)
             /\ call' = [NoCall EXCEPT !.op = "FreeEnergy", !.ok = r.ok,
                           !.visible = input, !.out = r.input, !.ret = r.ret,
                           !.pre = Before(input)]
  /\ pc' = "returned"
  /\ UNCHANGED <<archive, saved, phase, updates>>

CallSpikeMean ==
  /\ Ready
  /\ \E kind \in VisibleInputKinds :
       LET input == VisibleInput(kind, self.visibleSize)
           target == PlainSeq(TempBuffer(self.hiddenSize))
       IN  \E r \in {SpikeMean(self, input, target)} :
             /\ status' = Outcome(r.ok)
             /\ call' = [NoCall EXCEPT !.op = "SpikeMean", !.ok = r.ok,
                           !.visible = input, !.out = r.out,
                           !.pre = Before(target)]
  /\ pc' = "returned"
  /\ UNCHANGED <<self, archive, saved, phase, updates>>

CallSampleSpike ==
  /\ Ready
  /\ \E p \in {Zero, Half, One}, bern \in BernoulliDraws(self.hiddenSize) :
       LET target == TempBuffer(self.hiddenSize)
       IN  \E r \in {SampleSpike(self, Filled(self.hiddenSize, Plain(p)), target,
                            bern)} :
             /\ status' = Outcome(r.ok)
             /\ call' = [NoCall EXCEPT !.op = "SampleSpike", !.ok = r.ok,
                           !.bern = bern, !.out = r.out, !.pre = Before(target)]
  /\ pc' = "returned"
  /\ UNCHANGED <<self, archive, saved, phase, updates>>

CallSlabMean ==
  /\ Ready
  /\ \E kind \in VisibleInputKinds, bern \in BernoulliDraws(self.hiddenSize) :
       LET input == VisibleInput(kind, self.visibleSize)
           spike == [i \in 1..self.hiddenSize |-> Int2Rat(bern[i])]
           target == TempBuffer(self.poolSize * self.hiddenSize)
       IN  \E r \in {SlabMean(self, input, spike, target)} :
             /\ status' = Outcome(r.ok)
             /\ call' = [NoCall EXCEPT !.op = "SlabMean", !.ok = r.ok,
                           !.visible = input, !.spike = spike,
                           !.slabMean = r.out, !.out = r.out,
                           !.pre = Before(target)]
  /\ pc' = "returned"
  /\ UNCHANGED <<self, archive, saved, phase, updates>>

CallSampleSlab ==
  /\ Ready
  /\ \E noise \in NoiseDraws(self.poolSize * self.hiddenSize) :
       LET target == TempBuffer(self.poolSize * self.hiddenSize)
       IN  \E r \in {SampleSlab(self, Filled(self.poolSize * self.hiddenSize, Zero),
                           target, noise)} :
             /\ status' = Outcome(r.ok)
             /\ call' = [NoCall EXCEPT !.op = "SampleSlab", !.ok = r.ok,
                           !.out = r.out, !.pre = Before(target)]
  /\ pc' = "returned"
  /\ UNCHANGED <<self, archive, saved, phase, updates>>

CallVisibleMean ==
  /\ Ready
  /\ \E kind \in HiddenInputKinds,
        output \in OutputBuffers(self.visibleSize, One) :
       \E j \in JunkFor(output, self.visibleSize) :
         LET input == HiddenInput(kind, self.hiddenSize, self.poolSize)
         IN  \E r \in {VisibleMean(self, input, output, j)} :
               /\ status' = Outcome(r.ok)
               /\ call' = [NoCall EXCEPT !.op = "VisibleMean", !.ok = r.ok,
                             !.hidden = input, !.out = r.out,
                             !.pre = Before(output)]
  /\ pc' = "returned"
  /\ UNCHANGED <<self, archive, saved, phase, updates>>

CallHiddenMean ==
  /\ Ready
  /\ \E kind \in VisibleInputKinds, bern \in BernoulliDraws(self.hiddenSize),
        output \in OutputBuffers(self.hiddenSize
                                 + self.poolSize * self.hiddenSize, Plain(One)) :
       \E j \in JunkFor(output, self.hiddenSize
                                + self.poolSize * self.hiddenSize) :
         LET input == VisibleInput(kind, self.visibleSize)
         IN  \E r \in {HiddenMean(self, input, output, bern, j)} :
               /\ self' = r.self
               /\ status' = Outcome(r.ok)
               /\ call' = [NoCall EXCEPT !.op = "HiddenMean", !.ok = r.ok,
                             !.visible = input, !.bern = bern,
                             !.spike = r.spike, !.slabMean = r.slabMean,
                             !.out = r.out, !.pre = Before(output)]
  /\ pc' = "returned"
  /\ UNCHANGED <<archive, saved, phase, updates>>

CallSampleHidden ==
  /\ Ready
  /\ \E kind \in VisibleInputKinds, bern \in BernoulliDraws(self.hiddenSize),
        noise \in NoiseDraws(self.poolSize * self.hiddenSize),
        output \in OutputBuffers(self.hiddenSize
                                 + self.poolSize * self.hiddenSize, Plain(One)) :
       \E j \in JunkFor(output, self.hiddenSize
                                + self.poolSize * self.hiddenSize) :
         LET input == VisibleInput(kind, self.visibleSize)
         IN  \E r \in {SampleHidden(self, input, output, bern, noise, j)} :
               /\ self' = r.self
               /\ status' = Outcome(r.ok)
               /\ call' = [NoCall EXCEPT !.op = "SampleHidden", !.ok = r.ok,
                             !.visible = input, !.bern = bern,
                             !.spike = r.spike, !.slabMean = r.slabMean,
                             !.out = r.out, !.pre = Before(output)]
  /\ pc' = "returned"
  /\ UNCHANGED <<archive, saved, phase, updates>>

\* The gradient buffer the trainer passes: of the parameter buffer's
\* length, zeroed.
GradientBuffer(s) == Filled(Len(s.parameter), Plain(Zero))

CallPositivePhase ==
  /\ Ready
  /\ \E kind \in VisibleInputKinds, bern \in BernoulliDraws(self.hiddenSize) :
       LET input == VisibleInput(kind, self.visibleSize)
       IN  \E r \in {PositivePhase(self, input, GradientBuffer(self), bern)} :
             /\ self' = r.self
             /\ status' = Outcome(r.ok)
             /\ call' = [NoCall EXCEPT !.op = "PositivePhase", !.ok = r.ok,
                           !.visible = input, !.bern = bern,
                           !.spike = r.self.spikeSamples,
                           !.slabMean = r.self.slabMean, !.gviews = r.gviews,
                           !.out = r.out, !.pre = Before(GradientBuffer(self))]
  /\ pc' = "returned"
  /\ UNCHANGED <<archive, saved, phase, updates>>

CallNegativePhase ==
  /\ Ready
  /\ \E kind \in VisibleInputKinds, bern \in BernoulliDraws(self.hiddenSize) :
       LET input == VisibleInput(kind, self.visibleSize)
       IN  \E r \in {NegativePhase(self, input, GradientBuffer(self), bern)} :
             /\ self' = r.self
             /\ status' = Outcome(r.ok)
             /\ call' = [NoCall EXCEPT !.op = "NegativePhase", !.ok = r.ok,
                           !.visible = input, !.bern = bern,
                           !.spike = r.self.spikeSamples,
                           !.slabMean = r.self.slabMean, !.gviews = r.gviews,
                           !.out = r.out, !.pre = Before(GradientBuffer(self))]
  /\ pc' = "returned"
  /\ UNCHANGED <<archive, saved, phase, updates>>

\* SampleVisible up to its loop: the call of VisibleMean.
SampleVisibleBegin ==
  /\ Ready
  /\ \E kind \in HiddenInputKinds,
        output \in OutputBuffers(self.visibleSize, One) :
       \E j \in JunkFor(output, self.visibleSize) :
         LET input == HiddenInput(kind, self.hiddenSize, self.poolSize)
         IN  \E r \in {VisibleMean(self, input, output, j)} :
               /\ status' = Outcome(r.ok)
               /\ pc' = IF r.ok THEN "SampleVisible" ELSE "returned"
               /\ call' = [NoCall EXCEPT !.op = "SampleVisible", !.ok = r.ok,
                             !.hidden = input, !.mean0 = r.out, !.out = r.out,
                             !.pre = Before(output)]
  /\ UNCHANGED <<self, archive, saved, phase, updates>>

\* One pass of SampleVisible's loop; the call returns when the loop ends.
SampleVisibleStep ==
  /\ status = "ok"
  /\ pc = "SampleVisible"
  /\ \E noise \in NoiseDraws(self.visibleSize) :
       \E r \in {SampleVisibleTrial(self, call.out, noise)} :
         /\ status' = Outcome(r.ok)
         /\ pc' = IF r.ok /\ AnotherTrial(call.trials + 1, r.accepted)
                  THEN "SampleVisible" ELSE "returned"
         /\ call' = [call EXCEPT !.ok = r.ok, !.trials = @ + 1,
                       !.means = r.means, !.out = r.out,
                       !.accepted = r.accepted]
  /\ UNCHANGED <<self, archive, saved, phase, updates>>

\* The caller is done with the results of a call.
Return ==
  /\ status = "ok"
  /\ pc = "returned"
  /\ pc' = "idle"
  /\ call' = NoCall
  /\ UNCHANGED <<self, archive, saved, phase, status, updates>>

\* The mean, sample, gradient and energy operations of an instance.
Next ==
  \/ DoReset
  \/ CallFreeEnergy
  \/ CallSpikeMean
  \/ CallSampleSpike
  \/ CallSlabMean
  \/ CallSampleSlab
  \/ CallVisibleMean
  \/ CallHiddenMean
  \/ CallSampleHidden
  \/ CallPositivePhase
  \/ CallNegativePhase
  \/ Return

Spec == Init /\ [][Next]_vars

\* The visible sampler and its trial loop.
NextSampler ==
  \/ DoReset
  \/ DoUpdate
  \/ SampleVisibleBegin
  \/ SampleVisibleStep
  \/ Return

SpecSampler == Init /\ [][NextSampler]_vars

\* Saving and loading, with the operations the round trip is judged by.
NextPersist ==
  \/ DoReset
  \/ DoUpdate
  \/ DoSave
  \/ DoLoad
  \/ CallFreeEnergy
  \/ CallSpikeMean
  \/ Return

SpecPersist == Init /\ [][NextPersist]_vars

\* The layout of the flat buffers, for every shape.
InitLayout ==
  \E V \in DimVals, H \in DimVals, P \in DimVals :
    Begin(Fresh(V, H, P, <<0, 1, "ones", 2, 0>>))

NextLayout ==
  \/ DoReset
  \/ CallPositivePhase
  \/ CallNegativePhase
  \/ Return

SpecLayout == InitLayout /\ [][NextLayout]_vars

\* ================================================================== claims
Phases == {"PositivePhase", "NegativePhase"}
Range(view) == view.off .. (view.off + NElem(view) - 1)

\* The three views split a buffer of len elements into weight, spike bias
\* and visible penalty, in this order, without gap or overlap.
Partitions(w, sb, vp, V, H, P, len) ==
  /\ len = V * P * H + H + V
  /\ Range(w) = 0 .. (V * P * H - 1)
  /\ Range(sb) = (V * P * H) .. (V * P * H + H - 1)
  /\ Range(vp) = (V * P * H + H) .. (V * P * H + H + V - 1)
  /\ Range(w) \cap Range(sb) = {}
  /\ Range(w) \cap Range(vp) = {}
  /\ Range(sb) \cap Range(vp) = {}
  /\ Range(w) \cup Range(sb) \cup Range(vp) = 0 .. (len - 1)

\* C1: for every shape, the parameter views Reset() sets up and the gradient
\* views a phase sets up split their flat buffer of length V*P*H+H+V the
\* same way: weight [0, V*P*H), spike bias [V*P*H, V*P*H+H), visible penalty
\* [V*P*H+H, V*P*H+H+V), disjoint and covering every offset.
C1_SameLayout ==
  /\ phase = "live" =>
       /\ self.weight.mem = "param"
       /\ self.spikeBias.mem = "param"
       /\ self.visiblePenalty.mem = "param"
       /\ Partitions(self.weight, self.spikeBias, self.visiblePenalty,
                     self.visibleSize, self.hiddenSize, self.poolSize,
                     Len(self.parameter))
  /\ (phase = "live" /\ call.op \in Phases) =>
       /\ Partitions(call.gviews.weightGrad, call.gviews.spikeBiasGrad,
                     call.gviews.visiblePenaltyGrad,
                     self.visibleSize, self.hiddenSize, self.poolSize,
                     Len(call.out))
       /\ Range(call.gviews.weightGrad) = Range(self.weight)
       /\ Range(call.gviews.spikeBiasGrad) = Range(self.spikeBias)
       /\ Range(call.gviews.visiblePenaltyGrad) = Range(self.visiblePenalty)

C1_Witness ==
  /\ phase = "live"
  /\ call.op = "NegativePhase"
  /\ call.ok
  /\ self.visibleSize = 2 /\ self.hiddenSize = 1 /\ self.poolSize = 2

\* C2: SampleVisible makes at most 10 draws; it goes on to another draw only
\* while no draw so far was below the radius, and returns right after the
\* first that is; when none of the 10 is, it returns the 10th draw.
C2_BoundedTrials ==
  call.op = "SampleVisible" =>
    /\ call.trials <= numMaxTrials
    /\ pc = "SampleVisible" => (call.trials < numMaxTrials /\ ~call.accepted)
    /\ (pc = "returned" /\ call.ok) =>
         /\ call.trials >= 1
         /\ call.accepted \/ call.trials = numMaxTrials
         /\ call.accepted <=> NormBelow(call.out, self.radius)
         /\ \A r \in 1..self.visibleSize :
              \E z \in NoiseVals :
                call.out[r] = RAdd(call.means[r], Int2Rat(z))

C2_Witness ==
  /\ call.op = "SampleVisible"
  /\ pc = "returned"
  /\ call.ok
  /\ call.trials = numMaxTrials
  /\ ~call.accepted

\* C3: in both phases, slice i of the weight gradient is the outer product
\* of the input and column i of the slab mean, times the sampled spike[i].
C3_WeightGradientBySample ==
  (call.op \in Phases /\ call.ok) =>
    \A o \in 1..(self.visibleSize * self.poolSize * self.hiddenSize) :
      LET r == (o - 1) % self.visibleSize
          c == ((o - 1) \div self.visibleSize) % self.poolSize
          i == (o - 1) \div (self.visibleSize * self.poolSize)
      IN  call.out[o] =
            Plain(RMul(RMul(call.visible[r + 1],
                            call.slabMean[c + self.poolSize * i + 1]),
                       call.spike[i + 1]))

\* C4: from the same instance, visible vector, gradient buffer and spike
\* draws, PositivePhase and NegativePhase write the same gradient and leave
\* the same scratch buffers.
C4_PhasesAgree ==
  /\ call.op = "PositivePhase" =>
       LET r == NegativePhase(call.pre.self, call.visible, call.pre.out,
                              call.bern)
       IN  r.ok = call.ok /\ r.out = call.out /\ r.self = self
  /\ call.op = "NegativePhase" =>
       LET r == PositivePhase(call.pre.self, call.visible, call.pre.out,
                              call.bern)
       IN  r.ok = call.ok /\ r.out = call.out /\ r.self = self

C4_Witness ==
  /\ call.op = "NegativePhase"
  /\ call.ok
  /\ \E o \in 1..(self.visibleSize * self.poolSize * self.hiddenSize) :
       ~IsPlain(call.out[o])
  /\ self.spikeSamples # call.pre.self.spikeSamples

\* The operations C5 is about.
CheckedOperations ==
  {"FreeEnergy", "SpikeMean", "SlabMean", "VisibleMean", "HiddenMean",
   "SampleSpike", "SampleSlab", "SampleVisible", "SampleHidden",
   "PositivePhase", "NegativePhase"}

\* The call was made with an input of the wrong size or on an instance with
\* a penalty that is not strictly positive.
ViolatesPrecondition ==
  \/ call.op \in {"FreeEnergy", "SpikeMean", "SlabMean", "HiddenMean",
                  "SampleHidden", "PositivePhase", "NegativePhase"}
       /\ Len(call.visible) # self.visibleSize
  \/ call.op \in {"VisibleMean", "SampleVisible"}
       /\ Len(call.hidden) # self.hiddenSize + self.poolSize * self.hiddenSize
  \/ \E o \in 1..Len(self.slabPenalty) : ~RPositive(self.slabPenalty[o])
  \/ \E r \in 1..self.visibleSize : ~RPositive(VisiblePenalty(self, r - 1))

\* C5: a call that violates a precondition fails, and the failure is raised
\* before the operation has written to an output or scratch buffer.
C5_FailsBeforeWriting ==
  call.op \in CheckedOperations =>
    /\ ViolatesPrecondition => status = "failed"
    /\ status = "failed" => (call.out = call.pre.out /\ self = call.pre.self)

ValidVisibleKinds == {"zeros", "ones", "ramp"}

\* C6: an instance saved after Reset() and in-place updates, loaded into a
\* fresh instance and Reset(), has views that alias the loaded parameter
\* buffer, scratch buffers of shapes (H,1), (H,1), (P,H), and gives the
\* FreeEnergy and SpikeMean values the saved instance gave.
C6_RoundTrip ==
  (phase = "restored" /\ saved.weight.mem = "param") =>
    /\ self.parameter = saved.parameter
    /\ self.weight.mem = "param"
    /\ self.spikeBias.mem = "param"
    /\ self.visiblePenalty.mem = "param"
    /\ Partitions(self.weight, self.spikeBias, self.visiblePenalty,
                  saved.visibleSize, saved.hiddenSize, saved.poolSize,
                  Len(self.parameter))
    /\ Len(self.spikeMean) = saved.hiddenSize
    /\ Len(self.spikeSamples) = saved.hiddenSize
    /\ Len(self.slabMean) = saved.poolSize * saved.hiddenSize
    /\ \A kind \in ValidVisibleKinds :
         LET v == VisibleInput(kind, saved.visibleSize)
         IN  /\ FreeEnergy(self, v).ret = FreeEnergy(saved, v).ret
             /\ SpikeMean(self, v, self.spikeMean).out
                  = SpikeMean(saved, v, saved.spikeMean).out
    /\ (call.op = "FreeEnergy" /\ call.ok) =>
         call.ret = FreeEnergy(saved, call.visible).ret
    /\ (call.op = "SpikeMean" /\ call.ok) =>
         call.out = SpikeMean(saved, call.visible, saved.spikeMean).out

C6_Witness ==
  /\ phase = "restored"
  /\ saved.weight.mem = "param"
  /\ saved.parameter[1] = Int2Rat(2)
  /\ saved.hiddenSize # saved.poolSize
  /\ call.op = "FreeEnergy"
  /\ call.ok

\* The instance with its scratch buffers overwritten with x.
WithScratch(s, x) ==
  [s EXCEPT !.spikeMean = Filled(Len(@), Plain(x)),
            !.spikeSamples = Filled(Len(@), x),
            !.slabMean = Filled(Len(@), x)]

\* C7: a FreeEnergy call leaves the instance (parameter buffer, views, slab
\* penalty, scratch buffers) and its input as they were, and its result is
\* a function of the visible vector and the parameters alone: whatever
\* earlier operations left in the scratch buffers, the result is the same.
C7_FreeEnergyPure ==
  call.op = "FreeEnergy" =>
    /\ self = call.pre.self
    /\ call.out = call.visible
    /\ call.ok =>
         \A x \in {Zero, One, Int2Rat(7)} :
           call.ret = FreeEnergy(WithScratch(self, x), call.visible).ret

C7_Witness ==
  /\ call.op = "FreeEnergy"
  /\ call.ok
  /\ ~IsPlain(self.spikeMean[1])
  /\ self.slabMean # Filled(Len(self.slabMean), Zero)
  /\ \E r \in 1..self.visibleSize : call.visible[r] # Zero

\* diag(visiblePenalty)^-1 * SUM_i weight[i] * slab[:,i] * spike[i]
VisibleMeanFormula(s, hidden) ==
  [r \in 1..s.visibleSize |->
     RDiv(RSum([i \in 1..s.hiddenSize |->
                  RMul(RSum([c \in 1..s.poolSize |->
                               RMul(Weight(s, r - 1, c - 1, i - 1),
                                    hidden[s.hiddenSize + c
                                           + s.poolSize * (i - 1)])]),
                       hidden[i])]),
          VisiblePenalty(s, r - 1))]

\* C8: VisibleMean returns diag(visiblePenalty)^-1 * SUM_i weight[i] *
\* slab[:,i] * spike[i], whatever the output buffer held before the call.
C8_VisibleMeanExact ==
  (call.op = "VisibleMean" /\ call.ok) =>
    call.out = VisibleMeanFormula(self, call.hidden)

\* The operations that compute a slab mean from a spike they sampled.
SlabMeanCallers == {"HiddenMean", "SampleHidden", "PositivePhase", "NegativePhase"}

\* C9: column i of a slab mean is exactly zero whenever spike[i] is 0, for
\* SlabMean itself and for the slab mean HiddenMean, SampleHidden,
\* PositivePhase and NegativePhase compute from the spike they sampled in
\* the same call.
C9_SlabMeanGated ==
  (call.op \in SlabMeanCallers \cup {"SlabMean"}
     /\ Len(call.visible) = self.visibleSize) =>
    /\ Len(call.spike) = self.hiddenSize
    /\ Len(call.slabMean) = self.poolSize * self.hiddenSize
    /\ \A i \in 1..self.hiddenSize :
         call.spike[i] = Zero =>
           \A k \in 1..self.poolSize :
             call.slabMean[k + self.poolSize * (i - 1)] = Zero
    /\ call.op \in SlabMeanCallers =>
         call.spike = [i \in 1..self.hiddenSize |-> Int2Rat(call.bern[i])]
    /\ call.op \in Phases =>
         (self.slabMean = call.slabMean /\ self.spikeSamples = call.spike)
    /\ call.op = "HiddenMean" =>
         SubSeq(call.out, self.hiddenSize + 1, Len(call.out))
           = PlainSeq(call.slabMean)

C9_Witness ==
  /\ call.op = "SampleHidden"
  /\ call.ok
  /\ \E i \in 1..self.hiddenSize :
       /\ call.spike[i] = Zero
       /\ Project(self, call.visible, i - 1, 0) # Zero
  /\ \E i \in 1..self.hiddenSize : call.spike[i] = One

\* C10: every trial of SampleVisible draws each visible unit around the
\* VisibleMean value computed at the start of the call.
C10_TrialsShareMean ==
  (call.op = "SampleVisible" /\ call.trials >= 1) => call.means = call.mean0

\* What earlier calls may have left in the scratch buffers.
ScratchFills == {Zero, One, Int2Rat(7)}

\* C11: the result of a PositivePhase, NegativePhase, HiddenMean or
\* SampleHidden call (whether it fails, and what it writes to the gradient
\* or output buffer) is the one the same call gives, with the same input,
\* buffer and draws, on the instance with any other contents in its three
\* scratch buffers: what earlier calls left there never reaches a result.
C11_ScratchNeverReachesResult ==
  /\ call.op = "PositivePhase" =>
       \A x \in ScratchFills :
         \E r \in {PositivePhase(WithScratch(call.pre.self, x), call.visible,
                                 call.pre.out, call.bern)} :
           r.ok = call.ok /\ r.out = call.out
  /\ call.op = "NegativePhase" =>
       \A x \in ScratchFills :
         \E r \in {NegativePhase(WithScratch(call.pre.self, x), call.visible,
                                 call.pre.out, call.bern)} :
           r.ok = call.ok /\ r.out = call.out
  /\ call.op = "HiddenMean" =>
       \A x \in ScratchFills,
          j \in JunkFor(call.pre.out,
                        self.hiddenSize + self.poolSize * self.hiddenSize) :
         \E r \in {HiddenMean(WithScratch(call.pre.self, x), call.visible,
                              call.pre.out, call.bern, j)} :
           r.ok = call.ok /\ r.out = call.out
  /\ call.op = "SampleHidden" =>
       /\ \E noise \in NoiseDraws(self.poolSize * self.hiddenSize),
             j \in JunkFor(call.pre.out,
                           self.hiddenSize + self.poolSize * self.hiddenSize) :
            \E q \in {SampleHidden(call.pre.self, call.visible, call.pre.out,
                                   call.bern, noise, j)} :
              q.ok = call.ok /\ q.out = call.out
       /\ \A noise \in NoiseDraws(self.poolSize * self.hiddenSize),
             j \in JunkFor(call.pre.out,
                           self.hiddenSize + self.poolSize * self.hiddenSize) :
            \E q \in {SampleHidden(call.pre.self, call.visible, call.pre.out,
                                   call.bern, noise, j)} :
              \A x \in ScratchFills :
                \E r \in {SampleHidden(WithScratch(call.pre.self, x),
                                       call.visible, call.pre.out, call.bern,
                                       noise, j)} :
                  r.ok = q.ok /\ r.out = q.out

\* A phase that succeeds on scratch buffers an earlier call has filled, and
\* replaces the spike sample that call left.
C11_Witness ==
  /\ call.op = "PositivePhase"
  /\ call.ok
  /\ ~IsPlain(call.pre.self.spikeMean[1])
  /\ \E o \in 1..Len(call.pre.self.slabMean) :
       call.pre.self.slabMean[o] \notin {Zero, Int2Rat(7)}
  /\ self.spikeSamples # call.pre.self.spikeSamples
  /\ self.slabMean # call.pre.self.slabMean

====
